---- MODULE Spec2Model ----
(***************************************************************************)
(* A model of the SPDF server's key vault (crypto/keys.py), its license    *)
(* guard (api/license.py) and its key distribution routes (routes/*.py).   *)
(***************************************************************************)
EXTENDS Integers, Sequences, FiniteSets, TLC

VARIABLES
    _master_key,   \* KeyManager._master_key: NoneV or a master key
    rot,           \* the frame of the rotate_master_key call in progress
    call,          \* the last wrap_key / unwrap_key call of a concurrent caller
    now,           \* time.time() / datetime.utcnow(), in seconds
    ticks,         \* how often the clock has advanced
    _rate_limit_store,  \* api/license.py: client ip -> request timestamps
    _failed_attempts,   \* api/license.py: key string -> failure timestamps,
                        \* "lockout:" key string -> end of the lockout
    resp,          \* the response to the last request
    issued,        \* the licenses create_license has returned
    revoked,       \* the license keys revoke_license has confirmed revoked
    fails,         \* per pair: the times of all failures recorded for it
    mark,          \* per pair: how many of them precede its last success
    licenses,      \* the rows of the licenses table
    devices,       \* the rows of the devices table
    granted,       \* the (license key, device) pairs get_key returned a key to
    kresp,         \* the response to the last request to routes/*.py
    last_seen,     \* Device.last_seen of each device_id: "none" without a
                   \* row, "default" as inserted, "updated" once get_key
                   \* has set it for a known device
    thr,           \* per thread: the frame of its check_rate_limit call
    signing,       \* per KeyManager instance: _signing_key and _public_key
    keys_dir,      \* per organization: the key files in the .keys directory
    sthr,          \* per thread: the frame of its get_signing_key call
    generated,     \* how many keys Ed25519PrivateKey.generate() has made
    data,          \* the bytes of the container at hand
    tamper,        \* what was done to them since create_spdf returned them
    signed,        \* the signatures made so far: key, hash, signature bytes
    sealed,        \* the AES-GCM encryptions made so far
    out,           \* the outcome of the last operation on the container
    hashes,        \* the device fingerprints computed so far
    kthr,          \* per thread: the frame of its get_key request
    _default_key_manager  \* crypto/keys.py: the org_id of the global
                   \* KeyManager, whose master key is _master_key

vaultVars == <<_master_key, rot, call>>

guardVars == <<_rate_limit_store, _failed_attempts, resp, issued, revoked,
               fails, mark>>

clockVars == <<now, ticks>>

keyVars == <<licenses, devices, granted, kresp, last_seen>>

callerVars == <<thr>>

signVars == <<signing, keys_dir, sthr, generated>>

boxVars == <<data, tamper, signed, sealed, out>>

deviceVars == <<hashes>>

lateVars == <<kthr, _default_key_manager>>

vars == <<vaultVars, clockVars, guardVars, keyVars, callerVars, signVars,
          boxVars, deviceVars, lateVars>>

\* what the actions of each part of the server leave unchanged
notVault == <<clockVars, guardVars, keyVars, callerVars, signVars, boxVars,
             deviceVars, lateVars>>
offGuard == <<vaultVars, keyVars, callerVars, signVars, boxVars, deviceVars,
             lateVars>>
offKeys == <<vaultVars, callerVars, signVars, boxVars, deviceVars, lateVars>>
offRace == <<vaultVars, keyVars, signVars, boxVars, deviceVars, lateVars>>
offSign == <<vaultVars, clockVars, guardVars, keyVars, callerVars, boxVars,
            deviceVars, lateVars>>
offBox == <<clockVars, guardVars, keyVars, callerVars, signVars, deviceVars,
           lateVars>>
offDevice == <<vaultVars, clockVars, guardVars, keyVars, callerVars, signVars,
              boxVars, lateVars>>
offManager == <<rot, call, kthr, clockVars, guardVars, keyVars, callerVars,
               signVars, boxVars, deviceVars>>
offBind == <<vaultVars, _default_key_manager, clockVars, guardVars,
            callerVars, signVars, boxVars, deviceVars>>

(***************************************************************************)
(* Bounds of the model.                                                    *)
(***************************************************************************)
\* number of distinct valid master keys
NumMasters == 2
\* number of distinct document keys
NumDocKeys == 2
\* longest batch of wrapped keys handed to rotate_master_key
MaxKeys == 2

(***************************************************************************)
(* crypto/keys.py: constants and values.                                   *)
(***************************************************************************)
MASTER_KEY_LENGTH == 32
DOC_KEY_LENGTH == 32
WRAPPED_KEY_LENGTH == 40

\* None, in a field that holds a key
NoneV == [id |-> 0, len |-> 0, isbytes |-> FALSE]

Ok(v) == [ok |-> TRUE, val |-> v]
Raise(e) == [ok |-> FALSE, err |-> e]

\* a bytes object of MASTER_KEY_LENGTH bytes, as generate_master_key returns
MasterKey(i) == [id |-> i, len |-> MASTER_KEY_LENGTH, isbytes |-> TRUE]
\* b"short": a bytes object of the wrong length
ShortMaster == [id |-> 0, len |-> 5, isbytes |-> TRUE]
\* a str of 32 characters: it passes the len() check and is no key
TextMaster == [id |-> 0, len |-> MASTER_KEY_LENGTH, isbytes |-> FALSE]

ValidMasters == {MasterKey(i) : i \in 1..NumMasters}
MasterInputs == ValidMasters \cup {ShortMaster, TextMaster}

\* a bytes object of DOC_KEY_LENGTH bytes, as generate_doc_key returns
DocKey(i) == [id |-> i, len |-> DOC_KEY_LENGTH]
DocKeys == {DocKey(i) : i \in 1..NumDocKeys}
ShortDocKey == [id |-> 0, len |-> 5]

\* the master key of the environment variable SPDF_MASTER_KEY
EnvMaster == MasterKey(1)

\* RFC 3394 key wrap: 8 bytes longer than the key, bound to the wrapping key
aes_key_wrap(wrapping_key, key_to_wrap) ==
    IF ~wrapping_key.isbytes THEN Raise("TypeError")
    ELSE IF wrapping_key.len \notin {16, 24, 32} THEN Raise("ValueError")
    ELSE Ok([kek |-> wrapping_key.id, key |-> key_to_wrap.id,
             len |-> key_to_wrap.len + 8])

\* RFC 3394 key unwrap: the integrity check fails under any other key
aes_key_unwrap(wrapping_key, wrapped_key) ==
    IF ~wrapping_key.isbytes THEN Raise("TypeError")
    ELSE IF wrapping_key.len \notin {16, 24, 32} THEN Raise("ValueError")
    ELSE IF wrapped_key.kek = wrapping_key.id /\ wrapped_key.kek # 0
         THEN Ok([id |-> wrapped_key.key, len |-> wrapped_key.len - 8])
         ELSE Raise("InvalidKey")

\* a wrapped key with a flipped byte: no master key unwraps it
CorruptWrapped == [kek |-> 0, key |-> 1, len |-> WRAPPED_KEY_LENGTH]
\* 20 bytes: not a wrapped key
ShortWrapped == [kek |-> 1, key |-> 1, len |-> 20]

WrappedKeys ==
    {aes_key_wrap(m, k).val : m \in ValidMasters, k \in DocKeys}
        \cup {CorruptWrapped, ShortWrapped}

_load_master_key == EnvMaster

\* the property KeyManager.master_key at a value mk of _master_key
master_key(mk) == IF mk = NoneV THEN _load_master_key ELSE mk

\* KeyManager.wrap_key: the result and the value it leaves in _master_key
wrap_key(mk, doc_key) ==
    IF doc_key.len # DOC_KEY_LENGTH
    THEN [res |-> Raise("KeyManagementError"), mk |-> mk]
    ELSE LET r == aes_key_wrap(master_key(mk), doc_key)
         IN  [res |-> IF r.ok THEN r ELSE Raise("KeyManagementError"),
              mk |-> master_key(mk)]

\* KeyManager.unwrap_key: the result and the value it leaves in _master_key
unwrap_key(mk, wrapped_key) ==
    IF wrapped_key.len # WRAPPED_KEY_LENGTH
    THEN [res |-> Raise("KeyManagementError"), mk |-> mk]
    ELSE LET r == aes_key_unwrap(master_key(mk), wrapped_key)
         IN  [res |-> IF r.ok THEN r ELSE Raise("KeyManagementError"),
              mk |-> master_key(mk)]

(***************************************************************************)
(* KeyManager.rotate_master_key, one step per loop iteration.              *)
(***************************************************************************)
SeqsUpTo(S, n) == UNION {[1..k -> S] : k \in 0..n}

\* no wrap_key / unwrap_key call observed since the rotation began
NoCall == [op |-> "none"]

IdleRot ==
    [pc |-> "idle", new_master_key |-> NoneV, wrapped_keys |-> <<>>,
     doc_keys |-> <<>>, old_master |-> NoneV, new_wrapped |-> <<>>,
     fault |-> 0, before |-> NoneV]

\* line 226: the statement that installs the new master key
RotateInstallKept(new_master_key, cur) == cur
RotateInstall(new_master_key, cur) == new_master_key

\* line 235: the rollback of the except branch
RotateRollbackSkipped(old_master, cur) == cur
RotateRollback(old_master, cur) == old_master

\* lines 204-216: the call and its length check. fault is the iteration of
\* the re-wrap loop at which the cipher backend raises (0: it never does).
RotateCall(new_master_key, wrapped_keys, fault) ==
    /\ rot.pc = "idle"
    /\ rot' = [IdleRot EXCEPT
                 !.pc = IF new_master_key.len # MASTER_KEY_LENGTH
                        THEN "raised" ELSE "unwrap",
                 !.new_master_key = new_master_key,
                 !.wrapped_keys = wrapped_keys,
                 !.fault = fault,
                 !.before = master_key(_master_key)]
    /\ call' = NoCall
    /\ UNCHANGED <<_master_key, notVault>>

\* a caller starts a rotation with any new master key and any batch
Rotate ==
    /\ rot.pc = "idle"
    /\ \E m \in MasterInputs, ws \in SeqsUpTo(WrappedKeys, MaxKeys),
          f \in 0..MaxKeys : RotateCall(m, ws, f)

\* lines 219-226: one iteration of the unwrap loop; after the last one the
\* old master is saved and the new one installed
RotateUnwrap ==
    /\ rot.pc = "unwrap"
    /\ IF Len(rot.doc_keys) < Len(rot.wrapped_keys)
       THEN LET r == unwrap_key(_master_key,
                                rot.wrapped_keys[Len(rot.doc_keys) + 1])
            IN  /\ _master_key' = r.mk
                /\ rot' = IF r.res.ok
                          THEN [rot EXCEPT !.doc_keys = Append(@, r.res.val)]
                          ELSE [rot EXCEPT !.pc = "raised"]
       ELSE /\ rot' = [rot EXCEPT !.old_master = _master_key, !.pc = "wrap"]
            /\ _master_key' = RotateInstall(rot.new_master_key, _master_key)
    /\ UNCHANGED <<call, notVault>>

\* lines 229-238: one iteration of the re-wrap loop, its except branch, and
\* the return
RotateWrap ==
    /\ rot.pc = "wrap"
    /\ IF Len(rot.new_wrapped) < Len(rot.doc_keys)
       THEN LET i == Len(rot.new_wrapped) + 1
                r == IF rot.fault = i
                     THEN [res |-> Raise("KeyManagementError"),
                           mk |-> master_key(_master_key)]
                     ELSE wrap_key(_master_key, rot.doc_keys[i])
            IN  IF r.res.ok
                THEN /\ rot' = [rot EXCEPT !.new_wrapped = Append(@, r.res.val)]
                     /\ _master_key' = r.mk
                ELSE /\ rot' = [rot EXCEPT !.pc = "raised"]
                     /\ _master_key' = RotateRollback(rot.old_master, r.mk)
       ELSE /\ rot' = [rot EXCEPT !.pc = "returned"]
            /\ UNCHANGED _master_key
    /\ UNCHANGED <<call, notVault>>

\* the caller takes the result or the exception
RotateDone ==
    /\ rot.pc \in {"returned", "raised"}
    /\ rot' = IdleRot
    /\ call' = NoCall
    /\ UNCHANGED <<_master_key, notVault>>

(***************************************************************************)
(* wrap_key / unwrap_key calls of another thread on the same KeyManager.   *)
(***************************************************************************)

WrapKey(doc_key) ==
    LET r == wrap_key(_master_key, doc_key)
    IN  /\ _master_key' = r.mk
        /\ call' = [op |-> "wrap_key", res |-> r.res,
                    used |-> master_key(_master_key), during |-> rot.pc]
        /\ UNCHANGED <<rot, notVault>>

UnwrapKey(wrapped_key) ==
    LET r == unwrap_key(_master_key, wrapped_key)
    IN  /\ _master_key' = r.mk
        /\ call' = [op |-> "unwrap_key", res |-> r.res,
                    used |-> master_key(_master_key), during |-> rot.pc]
        /\ UNCHANGED <<rot, notVault>>

(***************************************************************************)
(* api/license.py: the rate limiter and the brute-force guard.             *)
(***************************************************************************)
RATE_LIMIT_WINDOW == 60
RATE_LIMIT_MAX_REQUESTS == 20
BRUTE_FORCE_WINDOW == 300
BRUTE_FORCE_MAX_ATTEMPTS == 5
LOCKOUT_DURATION == 900

\* the clock advances at most MaxTicks times
MaxTicks == 2
\* at most MaxFailures failures are recorded in all
MaxFailures == 5
\* a request is made while fewer than MaxRequests requests of its client are
\* in the rate limiter's window, or while the limiter is full
MaxRequests == 2

\* what get_client_ip returns
ClientIps == {"10.0.0.1", "10.0.0.2"}
\* keys of the form SPDF-XXXX-XXXX-XXXX-XXXX, as generate_license_key makes
LicenseKeys == {"SPDF-AAAA-1111-BBBB-2222", "SPDF-CCCC-3333-DDDD-4444"}
\* a key LicenseValidateRequest's pattern refuses
MalformedKey == "spdf-aaaa-1111-bbbb-2222"
DocIds == {"DOC-1", "DOC-2"}
Pairs == ClientIps \X LicenseKeys
\* the client whose validations the brute-force guard is followed for
GuardIps == {"10.0.0.1"}
\* the license key whose failures are recorded
GuardKeys == {"SPDF-AAAA-1111-BBBB-2222"}

startswith(s, prefix) ==
    Len(s) >= Len(prefix) /\ SubSeq(s, 1, Len(prefix)) = prefix

\* the values of _failed_attempts: a list of timestamps or a lockout time
List(l) == [kind |-> "list", list |-> l, float |-> 0]
Float(x) == [kind |-> "float", list |-> <<>>, float |-> x]

Put(d, k, v) == (k :> v) @@ d
Del(d, k) == [x \in DOMAIN d \ {k} |-> d[x]]

PairKey(client_ip, license_key) == client_ip \o ":" \o license_key
LockoutKey(key) == "lockout:" \o key

\* check_rate_limit comparing the count with the ceiling by > instead of >=
check_rate_limit_late(store, t, client_ip) ==
    LET kept == SelectSeq(store[client_ip],
                          LAMBDA x : x > t - RATE_LIMIT_WINDOW)
    IN  IF Len(kept) > RATE_LIMIT_MAX_REQUESTS
        THEN [allowed |-> FALSE, store |-> [store EXCEPT ![client_ip] = kept]]
        ELSE [allowed |-> TRUE,
              store |-> [store EXCEPT ![client_ip] = Append(kept, t)]]
\* check_rate_limit: whether the request is admitted, and the store it leaves
check_rate_limit(store, t, client_ip) ==
    LET kept == SelectSeq(store[client_ip],
                          LAMBDA x : x > t - RATE_LIMIT_WINDOW)
    IN  IF Len(kept) >= RATE_LIMIT_MAX_REQUESTS
        THEN [allowed |-> FALSE, store |-> [store EXCEPT ![client_ip] = kept]]
        ELSE [allowed |-> TRUE,
              store |-> [store EXCEPT ![client_ip] = Append(kept, t)]]

\* line 129: the test that a lockout is still running
StillLockedShort(t, lockout_time) == t < lockout_time - BRUTE_FORCE_WINDOW
StillLocked(t, lockout_time) == t < lockout_time

\* check_brute_force: whether the request is blocked, the dict it leaves, and
\* whether it raised (a lockout entry that is a list, a failure entry that
\* is a number)
check_brute_force(fa, t, client_ip, license_key) ==
    LET key == PairKey(client_ip, license_key)
        lockout_key == LockoutKey(key)
        has == lockout_key \in DOMAIN fa
    IN  IF has /\ fa[lockout_key].kind # "float"
        THEN [err |-> TRUE, blocked |-> FALSE, fa |-> fa]
        ELSE IF has /\ StillLocked(t, fa[lockout_key].float)
        THEN [err |-> FALSE, blocked |-> TRUE, fa |-> fa]
        ELSE LET fa1 == IF has THEN Del(fa, lockout_key) ELSE fa
             IN  IF key \in DOMAIN fa1 /\ fa1[key].kind # "list"
                 THEN [err |-> TRUE, blocked |-> FALSE, fa |-> fa1]
                 ELSE LET old == IF key \in DOMAIN fa1
                                 THEN fa1[key].list ELSE <<>>
                          kept == SelectSeq(old,
                                    LAMBDA x : x > t - BRUTE_FORCE_WINDOW)
                      IN  [err |-> FALSE,
                           blocked |-> Len(kept) >= BRUTE_FORCE_MAX_ATTEMPTS,
                           fa |-> Put(fa1, key, List(kept))]

\* record_failed_attempt: the dict it leaves, and whether it raised
record_failed_attempt(fa, t, client_ip, license_key) ==
    LET key == PairKey(client_ip, license_key)
        fa1 == IF key \notin DOMAIN fa THEN Put(fa, key, List(<<>>)) ELSE fa
    IN  IF fa1[key].kind # "list"
        THEN [err |-> TRUE, fa |-> fa1]
        ELSE LET l == Append(fa1[key].list, t)
                 fa2 == Put(fa1, key, List(l))
             IN  [err |-> FALSE,
                  fa |-> IF Len(l) >= BRUTE_FORCE_MAX_ATTEMPTS
                         THEN Put(fa2, LockoutKey(key),
                                  Float(t + LOCKOUT_DURATION))
                         ELSE fa2]

\* clear_failed_attempts: the dict it leaves
clear_failed_attempts_kept(fa, client_ip, license_key) == fa
clear_failed_attempts(fa, client_ip, license_key) ==
    LET key == PairKey(client_ip, license_key)
    IN  IF key \in DOMAIN fa THEN Del(fa, key) ELSE fa

\* the HTTP responses of api/license.py
RateLimited ==
    [status |-> 429, detail |-> "Rate limit exceeded. Please try again later."]
LockedOut ==
    [status |-> 429,
     detail |-> "Too many failed attempts. Account temporarily locked."]

Response(op, client_ip, license_key, doc_id, r) ==
    [op |-> op, client_ip |-> client_ip, license_key |-> license_key,
     doc_id |-> doc_id, status |-> r.status, detail |-> r.detail]

NoResponse == Response("none", "", "", "", [status |-> 0, detail |-> ""])

\* the bound on the requests of one client inside the limiter's window
MayRequest(client_ip) ==
    LET n == Len(SelectSeq(_rate_limit_store[client_ip],
                           LAMBDA x : x > now - RATE_LIMIT_WINDOW))
    IN  n < MaxRequests \/ n >= RATE_LIMIT_MAX_REQUESTS

\* POST /api/license/validate
ValidateLicense(client_ip, license_key, doc_id) ==
    LET rl == check_rate_limit(_rate_limit_store, now, client_ip)
        bf == check_brute_force(_failed_attempts, now, client_ip, license_key)
        is_valid == startswith(license_key, "SPDF-")
        rec == record_failed_attempt(bf.fa, now, client_ip, license_key)
        R(r) == Response("validate", client_ip, license_key, doc_id, r)
        p == <<client_ip, license_key>>
    IN  /\ MayRequest(client_ip)
        /\ IF license_key \notin LicenseKeys
           THEN \* the request model's pattern refuses the key
                /\ resp' = R([status |-> 422, detail |-> "validation error"])
                /\ UNCHANGED <<_rate_limit_store, _failed_attempts, fails, mark>>
           ELSE IF ~rl.allowed
           THEN /\ resp' = R(RateLimited)
                /\ _rate_limit_store' = rl.store
                /\ UNCHANGED <<_failed_attempts, fails, mark>>
           ELSE IF bf.err
           THEN /\ resp' = R([status |-> 500, detail |-> "Internal Server Error"])
                /\ _rate_limit_store' = rl.store
                /\ _failed_attempts' = bf.fa
                /\ UNCHANGED <<fails, mark>>
           ELSE IF bf.blocked
           THEN /\ resp' = R(LockedOut)
                /\ _rate_limit_store' = rl.store
                /\ _failed_attempts' = bf.fa
                /\ UNCHANGED <<fails, mark>>
           ELSE IF ~is_valid
           THEN /\ resp' = R([status |-> 403, detail |-> "Invalid license key"])
                /\ _rate_limit_store' = rl.store
                /\ _failed_attempts' = rec.fa
                /\ fails' = [fails EXCEPT ![p] = Append(@, now)]
                /\ UNCHANGED mark
           ELSE /\ resp' = R([status |-> 200, detail |-> "valid"])
                /\ _rate_limit_store' = rl.store
                /\ _failed_attempts' =
                       clear_failed_attempts(bf.fa, client_ip, license_key)
                /\ mark' = [mark EXCEPT ![p] = Len(fails[p])]
                /\ UNCHANGED fails
        /\ UNCHANGED <<issued, revoked, clockVars, offGuard>>

\* POST /api/license/create: the key is returned and nothing is stored
CreateLicense(client_ip, license_key, doc_id) ==
    LET rl == check_rate_limit(_rate_limit_store, now, client_ip)
        R(r) == Response("create", client_ip, license_key, doc_id, r)
    IN  /\ MayRequest(client_ip)
        /\ _rate_limit_store' = rl.store
        /\ IF ~rl.allowed
           THEN /\ resp' = R([status |-> 429, detail |-> "Rate limit exceeded"])
                /\ UNCHANGED issued
           ELSE /\ resp' = R([status |-> 200, detail |-> "success"])
                /\ issued' = issued \cup
                       {[license_key |-> license_key, doc_id |-> doc_id]}
        /\ UNCHANGED <<_failed_attempts, revoked, fails, mark, clockVars,
                       offGuard>>

\* POST /api/license/revoke: success is reported and nothing is stored
RevokeLicense(client_ip, license_key) ==
    LET rl == check_rate_limit(_rate_limit_store, now, client_ip)
        R(r) == Response("revoke", client_ip, license_key, "", r)
    IN  /\ MayRequest(client_ip)
        /\ _rate_limit_store' = rl.store
        /\ IF ~rl.allowed
           THEN /\ resp' = R([status |-> 429, detail |-> "Rate limit exceeded"])
                /\ UNCHANGED revoked
           ELSE /\ resp' = R([status |-> 200, detail |-> "success"])
                /\ revoked' = revoked \cup {license_key}
        /\ UNCHANGED <<_failed_attempts, issued, fails, mark, clockVars,
                       offGuard>>

\* GET /api/license/list, repeated until the limiter refuses the client
ListLicensesBurst(client_ip) ==
    LET kept == SelectSeq(_rate_limit_store[client_ip],
                          LAMBDA x : x > now - RATE_LIMIT_WINDOW)
        more == [i \in 1..(RATE_LIMIT_MAX_REQUESTS - Len(kept)) |-> now]
    IN  /\ Len(kept) < RATE_LIMIT_MAX_REQUESTS
        /\ _rate_limit_store' =
               [_rate_limit_store EXCEPT ![client_ip] = kept \o more]
        /\ resp' = Response("list", client_ip, "", "",
                            [status |-> 429, detail |-> "Rate limit exceeded"])
        /\ UNCHANGED <<_failed_attempts, issued, revoked, fails, mark,
                       clockVars, offGuard>>

RECURSIVE SumLen(_, _)
SumLen(f, S) ==
    IF S = {} THEN 0
    ELSE LET x == CHOOSE y \in S : TRUE
         IN  Len(f[x]) + SumLen(f, S \ {x})

\* the failures recorded so far, over all pairs
TotalFails == SumLen(fails, Pairs)

\* record_failed_attempt, called as the failing branch of a validation calls
\* it and as the tests call it
RecordFailedAttempt(client_ip, license_key) ==
    LET rec == record_failed_attempt(_failed_attempts, now, client_ip,
                                     license_key)
        p == <<client_ip, license_key>>
    IN  /\ TotalFails < MaxFailures
        /\ ~rec.err
        /\ _failed_attempts' = rec.fa
        /\ fails' = [fails EXCEPT ![p] = Append(@, now)]
        /\ UNCHANGED <<_rate_limit_store, resp, issued, revoked, mark,
                       clockVars, offGuard>>

\* check_brute_force, called as the tests call it
CheckBruteForce(client_ip, license_key) ==
    LET bf == check_brute_force(_failed_attempts, now, client_ip, license_key)
    IN  /\ ~bf.err
        /\ _failed_attempts' = bf.fa
        /\ UNCHANGED <<_rate_limit_store, resp, issued, revoked, fails, mark,
                       clockVars, offGuard>>

\* the clock: the failure window, and what is left of a lockout after it
TickSteps == {BRUTE_FORCE_WINDOW, LOCKOUT_DURATION - BRUTE_FORCE_WINDOW}

TickGuard ==
    /\ ticks < MaxTicks
    /\ \E d \in TickSteps : now' = now + d
    /\ ticks' = ticks + 1
    /\ UNCHANGED <<guardVars, offGuard>>

\* the helpers of the guard called for any strings: get_client_ip returns
\* the first entry of X-Forwarded-For as the client sent it
ForgedIp == "lockout:10.0.0.1"
AnyPairs == (GuardIps \cup {ForgedIp, "10.0.0.2"}) \X GuardKeys

\* the timestamps held in the lists of _failed_attempts
Recorded(fa) == SumLen([x \in DOMAIN fa |-> fa[x].list], DOMAIN fa)

\* (the tests record one failure more than it takes to lock a pair out)
PairRecord(client_ip, license_key) ==
    /\ Recorded(_failed_attempts) <= MaxFailures
    /\ _failed_attempts' =
           record_failed_attempt(_failed_attempts, now, client_ip,
                                 license_key).fa
    /\ UNCHANGED <<_rate_limit_store, resp, issued, revoked, fails, mark,
                   clockVars, offGuard>>

PairCheck(client_ip, license_key) ==
    /\ _failed_attempts' =
           check_brute_force(_failed_attempts, now, client_ip, license_key).fa
    /\ UNCHANGED <<_rate_limit_store, resp, issued, revoked, fails, mark,
                   clockVars, offGuard>>

PairClear(client_ip, license_key) ==
    /\ _failed_attempts' =
           clear_failed_attempts(_failed_attempts, client_ip, license_key)
    /\ UNCHANGED <<_rate_limit_store, resp, issued, revoked, fails, mark,
                   clockVars, offGuard>>

\* the guard called for pairs of any strings, as time passes
NextPairs ==
    \/ \E p \in AnyPairs : PairRecord(p[1], p[2])
    \/ \E p \in AnyPairs : PairCheck(p[1], p[2])
    \/ \E p \in AnyPairs : PairClear(p[1], p[2])
    \/ TickGuard

\* the guard called for one pair, as time passes
NextLockout ==
    \/ \E c \in GuardIps, k \in GuardKeys : PairRecord(c, k)
    \/ \E c \in GuardIps, k \in GuardKeys : PairCheck(c, k)
    \/ \E c \in GuardIps, k \in GuardKeys : PairClear(c, k)
    \/ TickGuard

InitGuard ==
    /\ now = 0
    /\ ticks = 0
    /\ _rate_limit_store = [c \in ClientIps |-> <<>>]
    /\ _failed_attempts = <<>>
    /\ resp = NoResponse
    /\ issued = {}
    /\ revoked = {}
    /\ fails = [p \in Pairs |-> <<>>]
    /\ mark = [p \in Pairs |-> 0]

\* the license endpoints, for any client, key and document
Validate ==
    \E c \in ClientIps, k \in LicenseKeys \cup {MalformedKey}, d \in DocIds :
        ValidateLicense(c, k, d)
Create ==
    \E c \in ClientIps, k \in LicenseKeys, d \in DocIds :
        CreateLicense(c, k, d)
Revoke == \E c \in ClientIps, k \in LicenseKeys : RevokeLicense(c, k)
Burst == \E c \in ClientIps : ListLicensesBurst(c)

NextLicense ==
    \/ Validate
    \/ Create
    \/ Revoke
    \/ Burst

\* the validations and failures of one client, as time passes
GuardValidate ==
    \E c \in GuardIps, k \in LicenseKeys : ValidateLicense(c, k, "DOC-1")
GuardBurst == \E c \in GuardIps : ListLicensesBurst(c)
Fail == \E c \in GuardIps, k \in GuardKeys : RecordFailedAttempt(c, k)
Check == \E c \in GuardIps, k \in GuardKeys : CheckBruteForce(c, k)

NextGuard ==
    \/ GuardValidate
    \/ GuardBurst
    \/ Fail
    \/ Check
    \/ TickGuard

\* check_rate_limit called for a client, as the tests call it
CheckRateLimit(client_ip) ==
    /\ MayRequest(client_ip)
    /\ _rate_limit_store' =
           check_rate_limit(_rate_limit_store, now, client_ip).store
    /\ UNCHANGED <<_failed_attempts, resp, issued, revoked, fails, mark,
                   clockVars, offGuard>>

\* the clock advances by half a rate-limit window
TickLimiter ==
    /\ ticks < MaxTicks
    /\ now' = now + RATE_LIMIT_WINDOW \div 2
    /\ ticks' = ticks + 1
    /\ UNCHANGED <<guardVars, offGuard>>

\* the threads that call check_rate_limit concurrently; the function takes
\* no lock, so a thread may be suspended between any two of its statements
Threads == {1, 2}

IdleFrame ==
    [pc |-> "idle", client_ip |-> "", t |-> 0, kept |-> <<>>, ret |-> "none"]

\* the calls are followed near the bottom of the window and near the ceiling
RaceMayCall(client_ip) ==
    LET n == Len(SelectSeq(_rate_limit_store[client_ip],
                           LAMBDA x : x > now - RATE_LIMIT_WINDOW))
    IN  n < MaxRequests \/ n >= RATE_LIMIT_MAX_REQUESTS - 1

\* lines 101-107: now is read and the list comprehension evaluated
RLCall(th, client_ip) ==
    /\ thr[th].pc = "idle"
    /\ RaceMayCall(client_ip)
    /\ thr' = [thr EXCEPT ![th] =
                  [pc |-> "assign", client_ip |-> client_ip, t |-> now,
                   kept |-> SelectSeq(_rate_limit_store[client_ip],
                                LAMBDA x : x > now - RATE_LIMIT_WINDOW),
                   ret |-> "none"]]
    /\ UNCHANGED <<guardVars, clockVars, offRace>>

\* line 104: the evicted list is stored
RLAssign(th) ==
    /\ thr[th].pc = "assign"
    /\ _rate_limit_store' =
           [_rate_limit_store EXCEPT ![thr[th].client_ip] = thr[th].kept]
    /\ thr' = [thr EXCEPT ![th].pc = "compare"]
    /\ UNCHANGED <<_failed_attempts, resp, issued, revoked, fails, mark,
                   clockVars, offRace>>

\* lines 109-110: the length of the stored list is compared with the ceiling
RLCompare(th) ==
    /\ thr[th].pc = "compare"
    /\ IF Len(_rate_limit_store[thr[th].client_ip]) >= RATE_LIMIT_MAX_REQUESTS
       THEN thr' = [thr EXCEPT ![th].pc = "idle", ![th].ret = "False"]
       ELSE thr' = [thr EXCEPT ![th].pc = "append"]
    /\ UNCHANGED <<guardVars, clockVars, offRace>>

\* lines 112-113: the timestamp is appended to the stored list
RLAppend(th) ==
    /\ thr[th].pc = "append"
    /\ _rate_limit_store' =
           [_rate_limit_store EXCEPT ![thr[th].client_ip] =
               Append(_rate_limit_store[thr[th].client_ip], thr[th].t)]
    /\ thr' = [thr EXCEPT ![th].pc = "idle", ![th].ret = "True"]
    /\ UNCHANGED <<_failed_attempts, resp, issued, revoked, fails, mark,
                   clockVars, offRace>>

InitCallers == thr = [th \in Threads |-> IdleFrame]

\* check_rate_limit called by concurrent threads for one client
NextRace ==
    \/ \E th \in Threads, c \in GuardIps : RLCall(th, c)
    \/ \E th \in Threads : RLAssign(th)
    \/ \E th \in Threads : RLCompare(th)
    \/ \E th \in Threads : RLAppend(th)
    \/ GuardBurst
    \/ TickLimiter

\* the rate limiter alone: the requests of two clients, one of which also
\* sends bursts, as time passes
NextLimiter ==
    \/ \E c \in ClientIps : CheckRateLimit(c)
    \/ GuardBurst
    \/ TickLimiter

(***************************************************************************)
(* routes/keys.py, routes/license_auth.py, routes/admin.py: the licenses   *)
(* and devices tables and the routes that read and write them.             *)
(***************************************************************************)
\* the users table, and the user ids a request may carry
Users == {1, 2}
UserIds == {1, 2, 3}
\* the documents table (each with its DocumentKey row), and a doc_id that
\* is not in it
Documents == DocIds
MissingDoc == "DOC-0"
\* the doc_ids the requests to the routes carry
RequestDocs == {"DOC-1", MissingDoc}
DeviceIds == {"dev-a", "dev-b"}
\* max_devices values an administrator submits
DeviceCaps == {1, 2}
\* License.expires_at: NULL, or a time
NullDate == -1
ExpiryTimes == {1}

License(user_id, doc_id, license_key, max_devices, expires_at) ==
    [user_id |-> user_id, doc_id |-> doc_id, license_key |-> license_key,
     max_devices |-> max_devices, expires_at |-> expires_at]

Device(user_id, device_id) == [user_id |-> user_id, device_id |-> device_id]

KeyResponse(op, status, detail) ==
    [op |-> op, status |-> status, detail |-> detail]

NoKeyResponse == KeyResponse("none", 0, "")

\* license.expires_at and license.expires_at < datetime.utcnow()
Expired(expires_at, t) == expires_at # NullDate /\ expires_at < t

\* no row of the devices table has the device_id
DeviceKnownNever(devs, device_id) == FALSE
\* db.query(Device).filter(Device.device_id == request.device_id).first()
DeviceKnown(devs, device_id) == \E dv \in devs : dv.device_id = device_id

\* get_key: fault says whether reading or decrypting the document key fails
GetKey(user_id, doc_id, device_id, fault) ==
    LET rows == {l \in licenses : l.user_id = user_id /\ l.doc_id = doc_id}
        known == DeviceKnown(devices, device_id)
        user_device_count == Cardinality({dv \in devices : dv.user_id = user_id})
    IN  /\ IF doc_id \notin Documents
           THEN /\ kresp' = KeyResponse("get_key", 404, "Document not found")
                /\ UNCHANGED <<devices, granted, last_seen>>
           ELSE IF rows = {}
           THEN /\ kresp' = KeyResponse("get_key", 403,
                                        "No license for this document")
                /\ UNCHANGED <<devices, granted, last_seen>>
           ELSE LET license == CHOOSE l \in rows : TRUE
                IN  IF Expired(license.expires_at, now)
                    THEN /\ kresp' = KeyResponse("get_key", 403,
                                                 "License expired")
                         /\ UNCHANGED <<devices, granted, last_seen>>
                    ELSE IF ~known /\ user_device_count >= license.max_devices
                    THEN /\ kresp' = KeyResponse("get_key", 403,
                                         "Maximum devices limit reached")
                         /\ UNCHANGED <<devices, granted, last_seen>>
                    ELSE /\ devices' = IF known THEN devices
                                       ELSE devices \cup
                                            {Device(user_id, device_id)}
                         /\ last_seen' =
                                [last_seen EXCEPT ![device_id] =
                                     IF known THEN "updated" ELSE "default"]
                         /\ IF fault
                            THEN /\ kresp' = KeyResponse("get_key", 500,
                                             "Document key not found")
                                 /\ UNCHANGED granted
                            ELSE /\ kresp' = KeyResponse("get_key", 200, "")
                                 /\ granted' = granted \cup
                                        {<<license.license_key, device_id>>}
        /\ UNCHANGED <<licenses, clockVars, guardVars, offKeys>>

\* login_with_license_key (users are never deleted in this model, so the
\* user of a license row is always found)
LoginWithLicenseKey(license_key) ==
    LET rows == {l \in licenses : l.license_key = license_key}
    IN  /\ IF rows = {}
           THEN kresp' = KeyResponse("login", 401, "Invalid license key")
           ELSE LET license_obj == CHOOSE l \in rows : TRUE
                IN  IF Expired(license_obj.expires_at, now)
                    THEN kresp' = KeyResponse("login", 401,
                                              "License has expired")
                    ELSE kresp' = KeyResponse("login", 200, "")
        /\ UNCHANGED <<licenses, devices, granted, last_seen, clockVars,
                       guardVars, offKeys>>

\* routes/admin.py create_license; the key is one no row holds
AdminCreateLicense(user_id, doc_id, max_devices) ==
    /\ IF user_id \notin Users
       THEN /\ kresp' = KeyResponse("create", 404, "User not found")
            /\ UNCHANGED licenses
       ELSE IF doc_id \notin Documents
       THEN /\ kresp' = KeyResponse("create", 404, "Document not found")
            /\ UNCHANGED licenses
       ELSE IF \E l \in licenses : l.user_id = user_id /\ l.doc_id = doc_id
       THEN /\ kresp' = KeyResponse("create", 400, "License already exists")
            /\ UNCHANGED licenses
       ELSE \E license_key \in LicenseKeys :
                /\ \A l \in licenses : l.license_key # license_key
                /\ licenses' = licenses \cup
                       {License(user_id, doc_id, license_key, max_devices,
                                NullDate)}
                /\ kresp' = KeyResponse("create", 200, "")
    /\ UNCHANGED <<devices, granted, last_seen, clockVars, guardVars, offKeys>>

\* routes/admin.py revoke_license: the row is deleted (and the record of
\* what was granted under it ends with it)
AdminRevokeLicense(license_key) ==
    /\ IF \A l \in licenses : l.license_key # license_key
       THEN /\ kresp' = KeyResponse("revoke", 404, "License not found")
            /\ UNCHANGED <<licenses, granted>>
       ELSE /\ licenses' = {l \in licenses : l.license_key # license_key}
            /\ granted' = {g \in granted : g[1] # license_key}
            /\ kresp' = KeyResponse("revoke", 200, "License revoked")
    /\ UNCHANGED <<devices, last_seen, clockVars, guardVars, offKeys>>

\* a License row written with expires_at set: the column of models.py, which
\* create_license of routes/admin.py leaves NULL
InsertLicense(user_id, doc_id, license_key, max_devices, expires_at) ==
    /\ \A l \in licenses :
           /\ l.license_key # license_key
           /\ ~(l.user_id = user_id /\ l.doc_id = doc_id)
    /\ licenses' = licenses \cup
           {License(user_id, doc_id, license_key, max_devices, expires_at)}
    /\ UNCHANGED <<devices, granted, last_seen, kresp, clockVars, guardVars,
                   offKeys>>

\* datetime.utcnow() advances
TickKeys ==
    /\ ticks < MaxTicks
    /\ now' = now + 1
    /\ ticks' = ticks + 1
    /\ UNCHANGED <<keyVars, guardVars, offKeys>>

\* the frame of a get_key request between its queries and its insert
IdleKey == [pc |-> "idle", user_id |-> 0, device_id |-> "", license_key |-> ""]

\* get_key, lines 62-101, in the thread of the request (the route is a plain
\* def, which the server runs in a thread pool): the document, the license,
\* its expiry, the device and the count of the user's devices are read. A
\* request of a new device under the cap goes on to register it; any other
\* request is answered as GetKey answers it.
GKQuery(th, user_id, doc_id, device_id) ==
    LET rows == {l \in licenses : l.user_id = user_id /\ l.doc_id = doc_id}
        license == CHOOSE l \in rows : TRUE
        user_device_count ==
            Cardinality({dv \in devices : dv.user_id = user_id})
    IN  /\ kthr[th].pc = "idle"
        /\ IF /\ doc_id \in Documents
              /\ rows # {}
              /\ ~Expired(license.expires_at, now)
              /\ ~DeviceKnown(devices, device_id)
              /\ user_device_count < license.max_devices
           THEN /\ kthr' = [kthr EXCEPT ![th] =
                               [pc |-> "register", user_id |-> user_id,
                                device_id |-> device_id,
                                license_key |-> license.license_key]]
                /\ UNCHANGED <<keyVars, offBind>>
           ELSE GetKey(user_id, doc_id, device_id, FALSE)

\* get_key, lines 103-151: the Device row is added and committed (device_id
\* is unique: the commit of a second row with it raises), and the key is
\* returned
GKRegister(th) ==
    LET f == kthr[th]
    IN  /\ f.pc = "register"
        /\ kthr' = [kthr EXCEPT ![th] = IdleKey]
        /\ IF DeviceKnown(devices, f.device_id)
           THEN /\ kresp' = KeyResponse("get_key", 500, "IntegrityError")
                /\ UNCHANGED <<devices, granted, last_seen>>
           ELSE /\ devices' = devices \cup {Device(f.user_id, f.device_id)}
                /\ last_seen' = [last_seen EXCEPT ![f.device_id] = "default"]
                /\ granted' = granted \cup {<<f.license_key, f.device_id>>}
                /\ kresp' = KeyResponse("get_key", 200, "")
        /\ UNCHANGED <<licenses, offBind>>

\* licenses are issued, and devices ask for keys at the same time
NextBindRace ==
    \/ \E u \in UserIds, d \in RequestDocs, m \in DeviceCaps :
          AdminCreateLicense(u, d, m)
    \/ \E th \in Threads, u \in Users, d \in RequestDocs, dv \in DeviceIds :
          GKQuery(th, u, d, dv)
    \/ \E th \in Threads : GKRegister(th)

InitKeys ==
    /\ licenses = {}
    /\ devices = {}
    /\ last_seen = [dv \in DeviceIds |-> "none"]
    /\ granted = {}
    /\ kresp = NoKeyResponse

NextKeys ==
    \/ \E u \in Users, d \in RequestDocs, dv \in DeviceIds,
          fault \in BOOLEAN : GetKey(u, d, dv, fault)
    \/ \E k \in LicenseKeys : LoginWithLicenseKey(k)
    \/ \E u \in UserIds, d \in RequestDocs, m \in DeviceCaps :
          AdminCreateLicense(u, d, m)
    \/ \E k \in LicenseKeys : AdminRevokeLicense(k)
    \/ \E u \in Users, d \in RequestDocs \cap Documents, k \in LicenseKeys,
          m \in DeviceCaps, e \in ExpiryTimes : InsertLicense(u, d, k, m, e)
    \/ TickKeys

\* licenses are issued and devices ask for keys under them
NextBinding ==
    \/ \E u \in Users, d \in RequestDocs, dv \in DeviceIds,
          fault \in BOOLEAN : GetKey(u, d, dv, fault)
    \/ \E u \in UserIds, d \in RequestDocs, m \in DeviceCaps :
          AdminCreateLicense(u, d, m)
    \/ \E u \in Users, d \in RequestDocs \cap Documents, k \in LicenseKeys,
          m \in DeviceCaps, e \in ExpiryTimes : InsertLicense(u, d, k, m, e)
    \/ TickKeys

(***************************************************************************)
(* crypto/keys.py: the Ed25519 signing keypair of an organization.         *)
(***************************************************************************)
\* at most MaxGenerated keys are generated
MaxGenerated == 2

Orgs == {"default", "acme"}
\* the KeyManager instances, and the org_id each was constructed with
Insts == {1, 2, 3}
OrgOf(i) == IF i = 3 THEN "acme" ELSE "default"

\* None, for a key attribute or a key file that does not exist
NoKey == 0
\* the keys Ed25519PrivateKey.generate() returns are numbered from 1;
\* public_key() of a private key, and public_key() of nothing
PublicKey(k) == [pub |-> k]
NoPublicKey == PublicKey(NoKey)

IdleSign == [pc |-> "idle", inst |-> 0, want |-> "none", ret |-> NoKey]

\* key_path.exists()
KeyPathExistsNever(dir, org) == FALSE
KeyPathExists(dir, org) == dir[org].signing # NoKey

\* get_signing_key, line 157: the cached key is returned, or the call goes on
SKCall(th, i, want) ==
    /\ sthr[th].pc = "idle"
    /\ IF signing[i]._signing_key # NoKey
       THEN sthr' = [sthr EXCEPT ![th] =
                        [pc |-> "idle", inst |-> i, want |-> want,
                         ret |-> signing[i]._signing_key]]
       ELSE sthr' = [sthr EXCEPT ![th] =
                        [pc |-> "exists", inst |-> i, want |-> want,
                         ret |-> NoKey]]
    /\ UNCHANGED <<signing, keys_dir, generated, offSign>>

\* get_signing_key called, and get_public_key called while _public_key is
\* None, which calls it
GetSigningKey(th, i) == SKCall(th, i, "signing")

GetPublicKey(th, i) ==
    IF signing[i]._public_key # NoPublicKey
    THEN /\ sthr[th].pc = "idle"
         /\ sthr' = [sthr EXCEPT ![th] =
                        [pc |-> "idle", inst |-> i, want |-> "public",
                         ret |-> signing[i]._public_key.pub]]
         /\ UNCHANGED <<signing, keys_dir, generated, offSign>>
    ELSE SKCall(th, i, "public")

\* line 162: key_path.exists()
SKExists(th) ==
    /\ sthr[th].pc = "exists"
    /\ sthr' = [sthr EXCEPT ![th].pc =
                   IF KeyPathExists(keys_dir, OrgOf(sthr[th].inst))
                   THEN "load" ELSE "generate"]
    /\ UNCHANGED <<signing, keys_dir, generated, offSign>>

\* lines 164-165: the key file is read into _signing_key
SKLoad(th) ==
    /\ sthr[th].pc = "load"
    /\ signing' = [signing EXCEPT ![sthr[th].inst]._signing_key =
                      keys_dir[OrgOf(sthr[th].inst)].signing]
    /\ sthr' = [sthr EXCEPT ![th].pc = "finish"]
    /\ UNCHANGED <<keys_dir, generated, offSign>>

\* line 168: a new key is generated into _signing_key
SKGenerate(th) ==
    /\ sthr[th].pc = "generate"
    /\ generated < MaxGenerated
    /\ generated' = generated + 1
    /\ signing' = [signing EXCEPT ![sthr[th].inst]._signing_key =
                      generated + 1]
    /\ sthr' = [sthr EXCEPT ![th].pc = "save"]
    /\ UNCHANGED <<keys_dir, offSign>>

\* lines 171-183: _signing_key and its public key are written to the files
SKSave(th) ==
    LET i == sthr[th].inst
    IN  /\ sthr[th].pc = "save"
        /\ keys_dir' = [keys_dir EXCEPT ![OrgOf(i)] =
                           [signing |-> signing[i]._signing_key,
                            public |-> PublicKey(signing[i]._signing_key)]]
        /\ sthr' = [sthr EXCEPT ![th].pc = "finish"]
        /\ UNCHANGED <<signing, generated, offSign>>

\* lines 187-188: _public_key is set and _signing_key returned
\* (get_public_key, line 193: _public_key is returned)
SKFinish(th) ==
    LET i == sthr[th].inst
    IN  /\ sthr[th].pc = "finish"
        /\ signing' = [signing EXCEPT ![i]._public_key =
                          PublicKey(signing[i]._signing_key)]
        /\ sthr' = [sthr EXCEPT ![th].pc = "idle",
                                ![th].ret = signing[i]._signing_key]
        /\ UNCHANGED <<keys_dir, generated, offSign>>

InitSigning ==
    /\ signing = [i \in Insts |->
                     [_signing_key |-> NoKey, _public_key |-> NoPublicKey]]
    /\ keys_dir = [o \in Orgs |-> [signing |-> NoKey, public |-> NoPublicKey]]
    /\ sthr = [th \in Threads |-> IdleSign]
    /\ generated = 0

\* the steps of the calls in progress
SKStep ==
    \/ \E th \in Threads : SKExists(th)
    \/ \E th \in Threads : SKLoad(th)
    \/ \E th \in Threads : SKGenerate(th)
    \/ \E th \in Threads : SKSave(th)
    \/ \E th \in Threads : SKFinish(th)

\* concurrent callers
NextSigningRace ==
    \/ \E th \in Threads, i \in Insts : GetSigningKey(th, i)
    \/ \E th \in Threads, i \in Insts : GetPublicKey(th, i)
    \/ SKStep

\* one caller, so one call at a time
Callers == {1}

NextSigning ==
    \/ \E th \in Callers, i \in Insts : GetSigningKey(th, i)
    \/ \E th \in Callers, i \in Insts : GetPublicKey(th, i)
    \/ SKStep

(***************************************************************************)
(* crypto/encrypt.py, crypto/decrypt.py: the container, byte by byte.      *)
(* SHA-256, Ed25519 and AES-GCM are ideal: a hash stands for its input; a  *)
(* signature verifies only if the private key of the public key made it    *)
(* over the same hash; a ciphertext decrypts only under the key and nonce  *)
(* it was made with, tag and all.                                          *)
(***************************************************************************)
MAGIC == <<83, 80, 68, 70>>
VERSION == 1
NONCE_LENGTH == 12
TAG_LENGTH == 16
SIGNATURE_LENGTH == 64
FLAG_DEVICE_BINDING == 1
FLAG_WATERMARK_ENABLED == 16

\* a bytes object of n bytes b
Rep(n, b) == [i \in 1..n |-> b]
\* data[a:b] of Python, for 0 <= a
Slice(bytes, a, b) ==
    LET hi == IF b > Len(bytes) THEN Len(bytes) ELSE b
    IN  IF a >= hi THEN <<>> ELSE SubSeq(bytes, a + 1, hi)
\* struct.pack('>H', n), struct.pack('>I', n) and struct.unpack
PackH(n) == <<(n \div 256) % 256, n % 256>>
PackI(n) == <<(n \div 16777216) % 256, (n \div 65536) % 256,
              (n \div 256) % 256, n % 256>>
RECURSIVE Unpack(_)
Unpack(bytes) ==
    IF bytes = <<>> THEN 0
    ELSE 256 * Unpack(SubSeq(bytes, 1, Len(bytes) - 1)) + bytes[Len(bytes)]
\* struct.unpack('>I', ...) of four bytes; a length of 2^30 or more is taken
\* as 2^30, which is more than any container here is long
UnpackI(bytes) == IF bytes[1] >= 64 THEN 2 ^ 30 ELSE Unpack(bytes)
\* byte x with bit b inverted
FlipBit(x, b) ==
    IF (x \div (2 ^ b)) % 2 = 1 THEN x - 2 ^ b ELSE x + 2 ^ b

\* the keypair of the organization, and a keypair of somebody else
OrgKey == 1
OtherKey == 3
\* the PEM text of a public key, in one byte: "1" and "3"
PemByte(k) == 48 + k
\* serialization.load_pem_public_key: the key, or NoKey where it raises
LoadPem(b) == IF b \in {PemByte(OrgKey), PemByte(OtherKey)} THEN b - 48 ELSE NoKey

\* the header: json.dumps of a dict, in four bytes: {, the public key, the
\* title, }
HeaderJson(public_key, title) == <<123, PemByte(public_key), title, 125>>
\* json.loads(header_json.decode('utf-8')): an object (printable ASCII
\* between braces), a number (one digit), or an error
JsonLoads(bytes) ==
    IF Len(bytes) = 1 /\ bytes[1] \in 48..57
    THEN [kind |-> "number", public_key |-> 0, title |-> 0]
    ELSE IF /\ Len(bytes) >= 2
            /\ bytes[1] = 123
            /\ bytes[Len(bytes)] = 125
            /\ \A i \in 1..Len(bytes) : bytes[i] \in 32..126
    THEN [kind |-> "object",
          public_key |-> IF Len(bytes) >= 4 THEN bytes[2] ELSE 0,
          title |-> IF Len(bytes) >= 4 THEN bytes[3] ELSE 0]
    ELSE [kind |-> "error", public_key |-> 0, title |-> 0]

\* a digest of the fixed-size fields before the header only
Sha256OfHead(bytes) == [sha256 |-> Slice(bytes, 0, 11)]
\* hashlib.sha256(data).digest()
Sha256(bytes) == [sha256 |-> bytes]
\* the 64 bytes private_key.sign returns
SignatureBytes(k) == Rep(SIGNATURE_LENGTH, 10 + k)
\* public_key.verify(signature, data_hash) does not raise
Ed25519Verify(public_key, signature, data_hash) ==
    \E s \in signed : /\ s.key = public_key
                      /\ s.hash = data_hash
                      /\ s.signature = signature

\* the wrapped document key in WRAPPED_KEY_LENGTH bytes, and back
WrappedBytes(w) == <<w.kek, w.key>> \o Rep(w.len - 2, 125)
FromWrappedBytes(bytes) ==
    IF \E w \in WrappedKeys : w.len >= 2 /\ WrappedBytes(w) = bytes
    THEN CHOOSE w \in WrappedKeys : w.len >= 2 /\ WrappedBytes(w) = bytes
    ELSE [kek |-> 0, key |-> 0, len |-> Len(bytes)]

\* encrypt_pdf: nonce, ciphertext (as long as the plaintext) and tag
EncryptNonce == Rep(NONCE_LENGTH, 7)
EncryptCiphertext(pdf_bytes) == [i \in 1..Len(pdf_bytes) |-> FlipBit(pdf_bytes[i], 7)]
EncryptTag == Rep(TAG_LENGTH, 9)

\* an SpdfFile, or the exception parse_spdf raised
SpdfFile(version, flags, header, wrapped_key, nonce, ciphertext, auth_tag, signature, unsigned_data) ==
    [err |-> "none", version |-> version, flags |-> flags, header |-> header,
     wrapped_key |-> wrapped_key, nonce |-> nonce, ciphertext |-> ciphertext,
     auth_tag |-> auth_tag, signature |-> signature,
     unsigned_data |-> unsigned_data]

ParseError(e) ==
    [err |-> e, version |-> 0, flags |-> 0, header |-> JsonLoads(<<>>),
     wrapped_key |-> <<>>, nonce |-> <<>>, ciphertext |-> <<>>,
     auth_tag |-> <<>>, signature |-> <<>>, unsigned_data |-> <<>>]

parse_spdf(bytes) ==
    LET n == Len(bytes)
        header_len == UnpackI(Slice(bytes, 7, 11))
        header == JsonLoads(Slice(bytes, 11, 11 + header_len))
        pos == 11 + header_len + WRAPPED_KEY_LENGTH + NONCE_LENGTH
        ciphertext_end == n - SIGNATURE_LENGTH - TAG_LENGTH
    IN  IF n < 11 + WRAPPED_KEY_LENGTH + NONCE_LENGTH + TAG_LENGTH
                 + SIGNATURE_LENGTH
        THEN ParseError("FormatError")
        ELSE IF Slice(bytes, 0, 4) # MAGIC THEN ParseError("FormatError")
        ELSE IF bytes[5] # VERSION THEN ParseError("FormatError")
        ELSE IF n < 11 + header_len THEN ParseError("FormatError")
        ELSE IF header.kind = "error" THEN ParseError("FormatError")
        ELSE IF header.kind # "object" THEN ParseError("AttributeError")
        ELSE IF n < 11 + header_len + WRAPPED_KEY_LENGTH
        THEN ParseError("FormatError")
        ELSE IF n < pos THEN ParseError("FormatError")
        ELSE IF n < pos + TAG_LENGTH + SIGNATURE_LENGTH
        THEN ParseError("FormatError")
        ELSE IF ciphertext_end <= pos THEN ParseError("FormatError")
        ELSE SpdfFile(bytes[5], Unpack(Slice(bytes, 5, 7)), header,
                      Slice(bytes, 11 + header_len,
                            11 + header_len + WRAPPED_KEY_LENGTH),
                      Slice(bytes, pos - NONCE_LENGTH, pos),
                      Slice(bytes, pos, ciphertext_end),
                      Slice(bytes, ciphertext_end, ciphertext_end + TAG_LENGTH),
                      Slice(bytes, n - SIGNATURE_LENGTH, n),
                      Slice(bytes, 0, n - SIGNATURE_LENGTH))

\* crypto/decrypt.py verify_signature: "valid", or the exception it raises
verify_signature(spdf) ==
    LET public_key == LoadPem(spdf.header.public_key)
    IN  IF public_key = NoKey THEN "SignatureError"
        ELSE IF Ed25519Verify(public_key, spdf.signature,
                              Sha256(spdf.unsigned_data))
        THEN "valid"
        ELSE "SignatureError"

\* decrypt_content: the plaintext, or the exception it raises
decrypt_content(spdf, doc_key) ==
    LET made == {e \in sealed : /\ e.key = doc_key.id
                                /\ e.nonce = spdf.nonce
                                /\ e.ciphertext = spdf.ciphertext
                                /\ e.tag = spdf.auth_tag}
    IN  IF doc_key.len # 32 THEN Raise("DecryptionError")
        ELSE IF made = {} THEN Raise("DecryptionError")
        ELSE Ok((CHOOSE e \in made : TRUE).plaintext)

\* the outcome of an operation on the container
Outcome(op, result, plaintext) ==
    [op |-> op, result |-> result, plaintext |-> plaintext]

NoOutcome == Outcome("none", "none", <<>>)

\* decrypt_spdf: the outcome, and the value it leaves in _master_key
decrypt_spdf(bytes, mk, verify) ==
    LET spdf == parse_spdf(bytes)
        checked == IF verify THEN verify_signature(spdf) ELSE "skipped"
        unwrapped == unwrap_key(mk, FromWrappedBytes(spdf.wrapped_key))
        content == decrypt_content(spdf, unwrapped.res.val)
    IN  IF spdf.err # "none"
        THEN [res |-> Outcome("decrypt", spdf.err, <<>>), mk |-> mk]
        ELSE IF checked = "SignatureError"
        THEN [res |-> Outcome("decrypt", "SignatureError", <<>>), mk |-> mk]
        ELSE IF ~unwrapped.res.ok
        THEN [res |-> Outcome("decrypt", unwrapped.res.err, <<>>),
              mk |-> unwrapped.mk]
        ELSE IF ~content.ok
        THEN [res |-> Outcome("decrypt", content.err, <<>>),
              mk |-> unwrapped.mk]
        ELSE [res |-> Outcome("decrypt", "ok", content.val),
              mk |-> unwrapped.mk]

FLAG_OFFLINE_ALLOWED == 2
FLAG_PRINT_ALLOWED == 4
FLAG_COPY_ALLOWED == 8

\* crypto/encrypt.py build_flags
build_flags(device_binding, offline_allowed, print_allowed, copy_allowed, watermark_enabled) ==
    (IF device_binding THEN FLAG_DEVICE_BINDING ELSE 0)
    + (IF offline_allowed THEN FLAG_OFFLINE_ALLOWED ELSE 0)
    + (IF print_allowed THEN FLAG_PRINT_ALLOWED ELSE 0)
    + (IF copy_allowed THEN FLAG_COPY_ALLOWED ELSE 0)
    + (IF watermark_enabled THEN FLAG_WATERMARK_ENABLED ELSE 0)

\* the PDFs handed to create_spdf ("%P", "%Q"; sanitize_pdf returns them as
\* they are), and the title ("A")
Pdfs == {<<37, 80>>, <<37, 81>>}
Titles == {65}

\* create_spdf with the default permissions, by the key manager of the
\* organization, whose signing key is OrgKey
CreateSpdf(pdf_bytes, title, doc_key) ==
    LET wrapped == wrap_key(_master_key, doc_key)
        ciphertext == EncryptCiphertext(pdf_bytes)
        flags == build_flags(TRUE, FALSE, FALSE, FALSE, TRUE)
        header_json == HeaderJson(OrgKey, title)
        unsigned_data ==
            MAGIC \o <<VERSION>> \o PackH(flags) \o PackI(Len(header_json))
                \o header_json \o WrappedBytes(wrapped.res.val)
                \o EncryptNonce \o ciphertext \o EncryptTag
        signature == SignatureBytes(OrgKey)
    IN  /\ data = <<>>
        /\ wrapped.res.ok
        /\ _master_key' = wrapped.mk
        /\ sealed' = sealed \cup
               {[key |-> doc_key.id, nonce |-> EncryptNonce,
                 ciphertext |-> ciphertext, tag |-> EncryptTag,
                 plaintext |-> pdf_bytes]}
        /\ signed' = signed \cup
               {[key |-> OrgKey, hash |-> Sha256(unsigned_data),
                 signature |-> signature]}
        /\ data' = unsigned_data \o signature
        /\ tamper' = "none"
        /\ out' = Outcome("create", "ok", <<>>)
        /\ UNCHANGED <<rot, call, offBox>>

\* one bit of the container is inverted
TamperBit(i, b) ==
    /\ tamper = "none"
    /\ i \in 1..Len(data)
    /\ data' = [data EXCEPT ![i] = FlipBit(@, b)]
    /\ tamper' = "flip"
    /\ out' = NoOutcome
    /\ UNCHANGED <<signed, sealed, vaultVars, offBox>>

\* where the public key stands in the container
PublicKeyAt == Len(MAGIC) + 1 + 2 + 4 + 2

\* somebody signs the bytes before the signature with a keypair k of their
\* own (crypto/signature.py sign_data), after writing the public key of k
\* into the header or without doing so
Resign(k, embed) ==
    LET prefix == Slice(data, 0, Len(data) - SIGNATURE_LENGTH)
        unsigned_data ==
            IF embed THEN [prefix EXCEPT ![PublicKeyAt] = PemByte(k)]
            ELSE prefix
    IN  /\ tamper = "none"
        /\ data # <<>>
        /\ signed' = signed \cup
               {[key |-> k, hash |-> Sha256(unsigned_data),
                 signature |-> SignatureBytes(k)]}
        /\ data' = unsigned_data \o SignatureBytes(k)
        /\ tamper' = "resign"
        /\ out' = NoOutcome
        /\ UNCHANGED <<sealed, vaultVars, offBox>>

\* parse_spdf, then verify_signature
ParseVerify ==
    LET spdf == parse_spdf(data)
    IN  /\ data # <<>>
        /\ out' = Outcome("verify",
                          IF spdf.err # "none" THEN spdf.err
                          ELSE verify_signature(spdf), <<>>)
        /\ UNCHANGED <<data, tamper, signed, sealed, vaultVars, offBox>>

\* decrypt_spdf, by the key manager of the organization
DecryptSpdf(verify) ==
    LET r == decrypt_spdf(data, _master_key, verify)
    IN  /\ data # <<>>
        /\ out' = r.res
        /\ _master_key' = r.mk
        /\ UNCHANGED <<data, tamper, signed, sealed, rot, call, offBox>>

\* spdf-cli decrypt_command: parse, verify unless --no-verify (after a failed
\* verification the user is asked "Continue anyway?"), then decrypt with the
\* key of --key, with a key manager of the organization (--license), or
\* through decrypt_spdf_file; every exception ends the command
CliModes == {"key", "license", "local"}
decrypt_command(bytes, no_verify, response, mode, key) ==
    LET spdf == parse_spdf(bytes)
        checked == IF no_verify THEN "skipped" ELSE verify_signature(spdf)
        unwrapped == unwrap_key(NoneV, FromWrappedBytes(spdf.wrapped_key))
        content == decrypt_content(spdf, IF mode = "key" THEN key
                                         ELSE unwrapped.res.val)
    IN  IF spdf.err # "none" THEN Outcome("cli", spdf.err, <<>>)
        ELSE IF checked = "SignatureError" /\ response # "y"
        THEN Outcome("cli", "SignatureError", <<>>)
        ELSE IF mode = "key"
        THEN IF key.len # 32 THEN Outcome("cli", "exit", <<>>)
             ELSE IF ~content.ok THEN Outcome("cli", content.err, <<>>)
             ELSE Outcome("cli", "ok", content.val)
        ELSE IF mode = "license"
        THEN IF ~unwrapped.res.ok
             THEN Outcome("cli", unwrapped.res.err, <<>>)
             ELSE IF ~content.ok THEN Outcome("cli", content.err, <<>>)
             ELSE Outcome("cli", "ok", content.val)
        ELSE [decrypt_spdf(bytes, NoneV, ~no_verify).res EXCEPT !.op = "cli"]

CliDecrypt(no_verify, response, mode, key) ==
    /\ data # <<>>
    /\ out' = decrypt_command(data, no_verify, response, mode, key)
    /\ UNCHANGED <<data, tamper, signed, sealed, vaultVars, offBox>>

\* byte strings handed to parse_spdf: a magic, a version, no flags, a
\* declared header length (that of the header, or one byte more than
\* follows it), header bytes, and tail_len bytes after them
BadMagic == <<83, 80, 68, 71>>
CraftedHeaders == {HeaderJson(OrgKey, 65), <<123, 125>>, <<53>>, <<255, 255>>, <<>>}
CraftedTails == {0, 130, 132, 133}
CraftedBytes(magic, version, declared, header_json, tail_len) ==
    magic \o <<version>> \o PackH(0) \o PackI(declared) \o header_json
        \o Rep(tail_len, 0)

Craft(magic, version, over, header_json, tail_len) ==
    /\ data = <<>>
    /\ data' = CraftedBytes(magic, version,
                            Len(header_json)
                                + (IF over THEN tail_len + 1 ELSE 0),
                            header_json, tail_len)
    /\ tamper' = "crafted"
    /\ out' = NoOutcome
    /\ UNCHANGED <<signed, sealed, vaultVars, offBox>>

\* parse_spdf on the bytes at hand
ParseSpdf ==
    /\ data # <<>>
    /\ out' = Outcome("parse",
                      IF parse_spdf(data).err = "none" THEN "ok"
                      ELSE parse_spdf(data).err, <<>>)
    /\ UNCHANGED <<data, tamper, signed, sealed, vaultVars, offBox>>

InitBox ==
    /\ data = <<>>
    /\ tamper = "none"
    /\ signed = {}
    /\ sealed = {}
    /\ out = NoOutcome

\* the bits of a byte
Bits == 0..7

Produce ==
    \E pdf_bytes \in Pdfs, title \in Titles, doc_key \in DocKeys :
        CreateSpdf(pdf_bytes, title, doc_key)
Tamper == \E i \in 1..Len(data), b \in Bits : TamperBit(i, b)
ResignOther == \E embed \in BOOLEAN : Resign(OtherKey, embed)

\* containers are made, tampered with, and verified
NextContainer ==
    \/ Produce
    \/ Tamper
    \/ ResignOther
    \/ ParseVerify

Decrypt == \E verify \in BOOLEAN : DecryptSpdf(verify)
Cli ==
    \E no_verify \in BOOLEAN, response \in {"y", "N"}, mode \in CliModes :
        \E key \in IF mode = "key" THEN DocKeys \cup {ShortDocKey}
                    ELSE {NoneV} :
            CliDecrypt(no_verify, response, mode, key)

\* containers are made, tampered with, and decrypted
NextDecrypt ==
    \/ Produce
    \/ Tamper
    \/ ResignOther
    \/ Decrypt
    \/ Cli

CraftAny ==
    \E magic \in {MAGIC, BadMagic}, version \in {VERSION, VERSION + 1},
       over \in BOOLEAN, header_json \in CraftedHeaders,
       tail_len \in CraftedTails :
        Craft(magic, version, over, header_json, tail_len)

\* byte strings, well formed or not, are parsed
NextParse ==
    \/ Produce
    \/ CraftAny
    \/ ParseSpdf

(***************************************************************************)
(* api/device.py compute_device_hash and crypto/keys.py hash_device_info.  *)
(* Strings are sequences of characters; SHA-256 is one to one.             *)
(***************************************************************************)
\* the most fingerprints followed at a time
MaxHashes == 2

\* str.upper() on the characters that occur
Upper(c) == IF c = "a" THEN "A" ELSE IF c = "b" THEN "B"
            ELSE IF c = "c" THEN "C" ELSE IF c = "d" THEN "D" ELSE c
\* mac_address.upper().replace('-', ':')
NormalizeMac(mac_address) ==
    [i \in 1..Len(mac_address) |->
        IF Upper(mac_address[i]) = "-" THEN ":" ELSE Upper(mac_address[i])]

compute_device_hash(cpu_id, mac_address, os_info, salt) ==
    Sha256(salt \o cpu_id \o <<":">> \o NormalizeMac(mac_address)
               \o <<":">> \o os_info)
hash_device_info(cpu_id, mac_address, os_info, salt) ==
    Sha256(salt \o cpu_id \o <<":">> \o mac_address \o <<":">> \o os_info)

CpuIds == {<<"a">>, <<"a", ":", "B">>}
MacAddresses == {<<"B", ":", "C">>, <<"C">>, <<"b", "-", "c">>, <<"b", ":", "c">>}
OsInfos == {<<"d">>, <<"C", ":", "d">>}
Salts == {<<"s">>, <<"t">>}

Fingerprint(fn, cpu_id, mac_address, os_info, salt, digest) ==
    [fn |-> fn, cpu_id |-> cpu_id, mac_address |-> mac_address,
     os_info |-> os_info, salt |-> salt, digest |-> digest]

ComputeDeviceHash(cpu_id, mac_address, os_info, salt) ==
    /\ Cardinality(hashes) < MaxHashes
    /\ hashes' = hashes \cup
           {Fingerprint("compute_device_hash", cpu_id, mac_address, os_info,
                        salt,
                        compute_device_hash(cpu_id, mac_address, os_info,
                                            salt))}
    /\ UNCHANGED offDevice

HashDeviceInfo(cpu_id, mac_address, os_info, salt) ==
    /\ Cardinality(hashes) < MaxHashes
    /\ hashes' = hashes \cup
           {Fingerprint("hash_device_info", cpu_id, mac_address, os_info,
                        salt,
                        hash_device_info(cpu_id, mac_address, os_info, salt))}
    /\ UNCHANGED offDevice

InitDevice == hashes = {}

NextDevice ==
    \E cpu_id \in CpuIds, mac_address \in MacAddresses,
       os_info \in OsInfos, salt \in Salts :
        \/ ComputeDeviceHash(cpu_id, mac_address, os_info, salt)
        \/ HashDeviceInfo(cpu_id, mac_address, os_info, salt)

\* the payloads handed to create_spdf, the empty one among them
Payloads == Pdfs \cup {<<>>}
ProduceAny ==
    \E pdf_bytes \in Payloads, title \in Titles, doc_key \in DocKeys :
        CreateSpdf(pdf_bytes, title, doc_key)

\* containers of any payload are made, and read again
NextRoundTrip ==
    \/ ProduceAny
    \/ Tamper
    \/ ParseVerify
    \/ Decrypt

\* _default_key_manager = None, and get_key_manager: the global instance, made anew when there is none or
\* when it is of another organization; a new KeyManager has loaded no
\* master key yet
NoManager == "None"
GetKeyManager(org_id) ==
    /\ rot.pc \in {"idle", "returned"}
    /\ IF _default_key_manager = NoManager \/ _default_key_manager # org_id
       THEN /\ _default_key_manager' = org_id
            /\ _master_key' = NoneV
       ELSE UNCHANGED <<_default_key_manager, _master_key>>
    /\ UNCHANGED offManager

\* rotations of the master key, and requests for the key manager of an
\* organization
NextManager ==
    \/ Rotate
    \/ RotateUnwrap
    \/ RotateWrap
    \/ RotateDone
    \/ \E org_id \in Orgs : GetKeyManager(org_id)

InitLate ==
    /\ kthr = [th \in Threads |-> IdleKey]
    /\ _default_key_manager = NoManager

InitVault ==
    /\ _master_key = NoneV
    /\ rot = IdleRot
    /\ call = NoCall

NextVault ==
    \/ Rotate
    \/ RotateUnwrap
    \/ RotateWrap
    \/ RotateDone
    \/ \E k \in DocKeys \cup {ShortDocKey} : WrapKey(k)
    \/ \E w \in WrappedKeys : UnwrapKey(w)

Init ==
    /\ InitVault
    /\ InitGuard
    /\ InitKeys
    /\ InitCallers
    /\ InitSigning
    /\ InitBox
    /\ InitDevice
    /\ InitLate

Next ==
    \/ NextVault
    \/ NextLicense
    \/ NextGuard
    \/ NextKeys
    \/ NextLimiter
    \/ NextRace
    \/ NextSigningRace
    \/ NextContainer
    \/ NextDecrypt
    \/ NextParse
    \/ NextPairs
    \/ NextBindRace
    \/ NextManager
    \/ NextRoundTrip
    \/ NextLockout
    \/ NextDevice

Spec == Init /\ [][Next]_vars

SpecVault == Init /\ [][NextVault]_vars

\* rotate_master_key alone, as its sequential contract describes it
NextRotate ==
    \/ Rotate
    \/ RotateUnwrap
    \/ RotateWrap
    \/ RotateDone

SpecRotate == Init /\ [][NextRotate]_vars


\* the license endpoints
SpecLicense == Init /\ [][NextLicense]_vars

\* the brute-force guard
SpecGuard == Init /\ [][NextGuard]_vars

\* the rate limiter
SpecLimiter == Init /\ [][NextLimiter]_vars

\* the rate limiter under concurrent callers
SpecRace == Init /\ [][NextRace]_vars

\* the signing keypair, one call at a time, and under concurrent callers
SpecSigning == Init /\ [][NextSigning]_vars

SpecSigningRace == Init /\ [][NextSigningRace]_vars

\* the container and its verification
SpecContainer == Init /\ [][NextContainer]_vars

\* the brute-force guard, for pairs of any strings
SpecPairs == Init /\ [][NextPairs]_vars

\* the lockout of one pair
SpecLockout == Init /\ [][NextLockout]_vars

\* producer and consumer of containers
SpecRoundTrip == Init /\ [][NextRoundTrip]_vars

\* the key managers of a process
SpecManager == Init /\ [][NextManager]_vars

\* device binding with requests in parallel
SpecBindRace == Init /\ [][NextBindRace]_vars

\* device fingerprints
SpecDevice == Init /\ [][NextDevice]_vars

\* parse_spdf on byte strings of any make
SpecParse == Init /\ [][NextParse]_vars

\* the ways to the plaintext of a container
SpecDecrypt == Init /\ [][NextDecrypt]_vars

\* the key distribution routes alone
SpecKeys == Init /\ [][NextKeys]_vars

\* device binding under licenses that stay
SpecBinding == Init /\ [][NextBinding]_vars

(***************************************************************************)
(* Claims about the key vault.                                             *)
(***************************************************************************)

\* C1: when rotate_master_key raises (bad length of the new master, an
\* unwrap failure, or a wrap failure after some keys were re-wrapped), the
\* vault's master key is the one it had before the call and every key of
\* the batch that unwrapped under it before still unwraps to the same key.
C1_FailedRotationRestores ==
    rot.pc = "raised" =>
        /\ master_key(_master_key) = rot.before
        /\ \A i \in 1..Len(rot.wrapped_keys) :
              LET was == unwrap_key(rot.before, rot.wrapped_keys[i]).res
              IN  was.ok =>
                    unwrap_key(_master_key, rot.wrapped_keys[i]).res = was

\* a rotation to another master key that raised in the re-wrap loop after
\* one key was already re-wrapped
C1_Witness ==
    /\ rot.pc = "raised"
    /\ Len(rot.new_wrapped) >= 1
    /\ rot.new_master_key # rot.before

\* C2: when rotate_master_key returns, it returns as many wrapped keys as
\* it was given, the i-th unwraps under the new master to the document key
\* the i-th input held under the old master, and the vault's master key is
\* the new one.
C2_RotationRewraps ==
    rot.pc = "returned" =>
        /\ Len(rot.new_wrapped) = Len(rot.wrapped_keys)
        /\ \A i \in 1..Len(rot.wrapped_keys) :
              LET was == aes_key_unwrap(rot.before, rot.wrapped_keys[i])
                  got == aes_key_unwrap(rot.new_master_key, rot.new_wrapped[i])
              IN  was.ok /\ got = was
        /\ _master_key = rot.new_master_key

\* a rotation to another master key that returned a batch of two different
\* document keys
C2_Witness ==
    /\ rot.pc = "returned"
    /\ rot.new_master_key # rot.before
    /\ Len(rot.new_wrapped) >= 2
    /\ rot.wrapped_keys[1] # rot.wrapped_keys[2]

\* C3: a wrap_key / unwrap_key call made while a rotation is in progress
\* works under the master key the vault had when the rotation began, never
\* under the new one.
C3_RotationIsExclusive ==
    (call.op # "none" /\ call.during \in {"unwrap", "wrap"}) =>
        call.used = rot.before

(***************************************************************************)
(* Claims about the license endpoints and the brute-force guard.           *)
(***************************************************************************)
\* the failures recorded for a pair since its last successful validation
Since(p) == SubSeq(fails[p], mark[p] + 1, Len(fails[p]))

\* BRUTE_FORCE_MAX_ATTEMPTS failures of the pair lie within one failure
\* window, and t is within LOCKOUT_DURATION of the last of them
LockedByHistory(p, t) ==
    LET f == Since(p)
        n == BRUTE_FORCE_MAX_ATTEMPTS
    IN  \E j \in n..Len(f) :
            /\ f[j] - f[j - (n - 1)] < BRUTE_FORCE_WINDOW
            /\ t < f[j] + LOCKOUT_DURATION

\* the length of the failure list _failed_attempts holds for a pair
FailureCount(fa, client_ip, license_key) ==
    LET key == PairKey(client_ip, license_key)
    IN  IF key \in DOMAIN fa THEN Len(fa[key].list) ELSE 0

\* a license create_license has returned for this key and document, which
\* revoke_license has not revoked
Licensed(license_key, doc_id) ==
    /\ \E l \in issued : l.license_key = license_key /\ l.doc_id = doc_id
    /\ license_key \notin revoked

\* the devices get_key has returned a key to under a license
GrantedDevices(license_key) == {g[2] : g \in {x \in granted : x[1] = license_key}}

\* C4: the number of distinct devices granted access under a license never
\* exceeds the max_devices of that license.
C4_DevicesWithinCap ==
    \A l \in licenses :
        Cardinality(GrantedDevices(l.license_key)) <= l.max_devices

\* C5: a validation grants only for a license key that exists, is not
\* revoked and belongs to the requested document.
C5_GrantOnlyIfLicensed ==
    (resp.op = "validate" /\ resp.status = 200) =>
        Licensed(resp.license_key, resp.doc_id)

\* C6: once revoke has been called for a license key, no later validation
\* presenting that key succeeds.
C6_RevokedNeverValidates ==
    (resp.op = "validate" /\ resp.license_key \in revoked) =>
        resp.status # 200

\* C7: a key request or a license-key login made at a time at or after the
\* expiry of its license does not succeed, and a license without expiry is
\* never answered as expired.
C7_ExpiredIsRefused ==
    [][\A l \in licenses :
          /\ (l.expires_at # NullDate /\ now >= l.expires_at) =>
                /\ \A dv \in DeviceIds, fault \in BOOLEAN :
                       GetKey(l.user_id, l.doc_id, dv, fault) =>
                           kresp'.status # 200
                /\ LoginWithLicenseKey(l.license_key) => kresp'.status # 200
          /\ l.expires_at = NullDate =>
                /\ \A dv \in DeviceIds, fault \in BOOLEAN :
                       GetKey(l.user_id, l.doc_id, dv, fault) =>
                           kresp'.detail # "License expired"
                /\ LoginWithLicenseKey(l.license_key) =>
                       kresp'.detail # "License has expired"]_vars

\* C8: once BRUTE_FORCE_MAX_ATTEMPTS failures of a pair were recorded within
\* the failure window, every attempt of the pair during the lockout that
\* the rate limiter admits is answered by the guard's rejection and neither
\* records a failure nor clears the pair, whatever key it presents.
C8_LockedOutIsRejected ==
    [][\A c \in ClientIps, k \in LicenseKeys, d \in DocIds :
          ( /\ ValidateLicense(c, k, d)
            /\ LockedByHistory(<<c, k>>, now)
            /\ check_rate_limit(_rate_limit_store, now, c).allowed )
          => /\ resp'.status = LockedOut.status
             /\ resp'.detail = LockedOut.detail
             /\ _failed_attempts' = _failed_attempts
             /\ fails' = fails
             /\ mark' = mark]_vars

\* an attempt rejected by the guard after the failures of the pair have
\* left the failure window, while the lockout still runs
C8_Witness ==
    LET p == <<resp.client_ip, resp.license_key>>
    IN  /\ resp.op = "validate"
        /\ resp.status = LockedOut.status
        /\ resp.detail = LockedOut.detail
        /\ LockedByHistory(p, now)
        /\ now >= fails[p][Len(fails[p])] + BRUTE_FORCE_WINDOW

\* C9: while fewer than BRUTE_FORCE_MAX_ATTEMPTS failures were recorded for
\* a pair since its last successful validation, the guard does not block
\* the pair.
C9_SuccessResetsCount ==
    \A p \in Pairs :
        Len(Since(p)) < BRUTE_FORCE_MAX_ATTEMPTS =>
            ~check_brute_force(_failed_attempts, now, p[1], p[2]).blocked

\* a pair with a threshold of failures inside one window, some before and
\* some after a successful validation, that is not blocked
C9_Witness ==
    \E p \in Pairs :
        /\ mark[p] >= 1
        /\ Len(Since(p)) >= 1
        /\ Len(fails[p]) >= BRUTE_FORCE_MAX_ATTEMPTS
        /\ fails[p][Len(fails[p])] - fails[p][1] < BRUTE_FORCE_WINDOW
        /\ ~check_brute_force(_failed_attempts, now, p[1], p[2]).blocked

\* C10: a validation that passes the rate limiter and the guard and
\* presents a key that is unknown, revoked or of another document adds one
\* failure to the count of its pair.
C10_FailureCounted ==
    [][\A c \in ClientIps, k \in LicenseKeys, d \in DocIds :
          ( /\ ValidateLicense(c, k, d)
            /\ check_rate_limit(_rate_limit_store, now, c).allowed
            /\ ~check_brute_force(_failed_attempts, now, c, k).blocked
            /\ ~Licensed(k, d) )
          => FailureCount(_failed_attempts', c, k) =
                 FailureCount(_failed_attempts, c, k) + 1]_vars

\* the timestamps of a client's admitted requests that lie in the window
\* ending at t
InWindow(client_ip, t) ==
    LET l == _rate_limit_store[client_ip]
    IN  {i \in 1..Len(l) : l[i] > t - RATE_LIMIT_WINDOW /\ l[i] <= t}

\* C11: for every client, the admitted requests whose timestamps lie within
\* one window, ending at any admitted timestamp or now, number at most
\* RATE_LIMIT_MAX_REQUESTS.
C11_CeilingHolds ==
    \A c \in ClientIps :
        LET l == _rate_limit_store[c]
        IN  /\ Cardinality(InWindow(c, now)) <= RATE_LIMIT_MAX_REQUESTS
            /\ \A i \in 1..Len(l) :
                   Cardinality(InWindow(c, l[i])) <= RATE_LIMIT_MAX_REQUESTS

\* one client has RATE_LIMIT_MAX_REQUESTS admitted requests in the window,
\* admitted at different times, and is rejected now, while another client
\* was admitted at this instant
C11_Witness ==
    \E c \in ClientIps, o \in ClientIps :
        LET l == _rate_limit_store[c]
        IN  /\ o # c
            /\ Cardinality(InWindow(c, now)) = RATE_LIMIT_MAX_REQUESTS
            /\ l[1] < now /\ l[Len(l)] = now
            /\ ~check_rate_limit(_rate_limit_store, now, c).allowed
            /\ InWindow(o, now) # {}
            /\ _rate_limit_store[o][Len(_rate_limit_store[o])] = now

\* C12: whatever the interleaving of concurrent check_rate_limit calls for
\* one client, the admitted requests within one window number at most
\* RATE_LIMIT_MAX_REQUESTS, and the timestamp of every call that returned
\* True within the window is in the store.
C12_LimiterIsAtomic ==
    /\ \A c \in ClientIps :
           Cardinality(InWindow(c, now)) <= RATE_LIMIT_MAX_REQUESTS
    /\ \A th \in Threads :
           (thr[th].ret = "True" /\ thr[th].t > now - RATE_LIMIT_WINDOW) =>
               \E i \in 1..Len(_rate_limit_store[thr[th].client_ip]) :
                   _rate_limit_store[thr[th].client_ip][i] = thr[th].t


\* C13: when no get_signing_key call is in progress, the callers of one
\* organization hold the same key, and it is the one in the key file of
\* the organization.
C13_FirstUseIsIdempotent ==
    (\A th \in Threads : sthr[th].pc = "idle") =>
        \A th \in Threads :
            sthr[th].ret # NoKey =>
                sthr[th].ret = keys_dir[OrgOf(sthr[th].inst)].signing

C15_BitFlipIsDetected ==
    (tamper = "flip" /\ out.op = "verify") =>
        out.result \in {"FormatError", "SignatureError"}

\* the inverted bit is in the signature: the bytes before it are those
\* create_spdf signed, the container parses, and verification raised
C15_Witness ==
    /\ tamper = "flip"
    /\ out.op = "verify"
    /\ out.result = "SignatureError"
    /\ parse_spdf(data).err = "none"
    /\ \E s \in signed : /\ s.key = OrgKey
                         /\ s.hash = Sha256(parse_spdf(data).unsigned_data)
                         /\ s.signature # parse_spdf(data).signature

\* C16: a container that verifies carries a signature the signing key of the
\* issuing organization made over the bytes before it.
C16_OnlyIssuerKeyVerifies ==
    (out.op = "verify" /\ out.result = "valid") =>
        Ed25519Verify(OrgKey, parse_spdf(data).signature,
                      Sha256(parse_spdf(data).unsigned_data))

\* C17: whenever decrypt_spdf or the decrypt command has put out plaintext,
\* the bytes it read parse and their signature verifies.
C17_PlaintextOnlyIfVerified ==
    (out.op \in {"decrypt", "cli"} /\ out.result = "ok") =>
        /\ parse_spdf(data).err = "none"
        /\ verify_signature(parse_spdf(data)) = "valid"

\* C18: a validation refused with 429 right after another one refused with
\* 429 shows the client the same status and message, whichever of the rate
\* limiter and the lockout refused each of them.
C18_RefusalsLookAlike ==
    [][(/\ resp.op = "validate" /\ resp.status = 429
        /\ resp'.op = "validate" /\ resp'.status = 429) =>
           resp'.detail = resp.detail]_vars

\* C19: a get_key request answered with an error leaves the devices table as
\* it was.
C19_ErrorsBindNothing ==
    [][\A u \in Users, d \in RequestDocs, dv \in DeviceIds, fault \in BOOLEAN :
          (GetKey(u, d, dv, fault) /\ kresp'.status # 200) =>
              devices' = devices]_vars

\* C20: a get_key request of a licensed user from a device that already has
\* its row under this user, with the document key readable, is answered 200
\* whatever the number of devices of the user, and leaves the devices table
\* as it was; only last_seen of the device is set.
C20_RebindingIsIdempotent ==
    [][\A l \in licenses, dv \in DeviceIds :
          (/\ Device(l.user_id, dv) \in devices
           /\ (l.expires_at = NullDate \/ now < l.expires_at)
           /\ GetKey(l.user_id, l.doc_id, dv, FALSE)) =>
              /\ kresp'.status = 200
              /\ devices' = devices
              /\ \A other \in DeviceIds \ {dv} :
                     last_seen'[other] = last_seen[other]]_vars

\* a license at its capacity, and a request from one of its devices, seen
\* before, answered 200
C20_Witness ==
    \E l \in licenses, dv \in DeviceIds :
        /\ Device(l.user_id, dv) \in devices
        /\ Cardinality({x \in devices : x.user_id = l.user_id})
               = l.max_devices
        /\ last_seen[dv] = "updated"
        /\ <<l.license_key, dv>> \in granted
        /\ kresp = KeyResponse("get_key", 200, "")

\* C21: a license key that create_license returns is none of the keys issued
\* before it.
C21_IssuedKeysDistinct ==
    [][\A c \in ClientIps, k \in LicenseKeys, d \in DocIds :
          (CreateLicense(c, k, d) /\ resp'.status = 200) =>
              \A l \in issued : l.license_key # k]_vars

\* C22: parse_spdf returns a parsed container or raises FormatError, and
\* nothing else, whatever the bytes.
C22_OnlyFormatError ==
    out.op = "parse" => out.result \in {"ok", "FormatError"}

\* C23: under one fingerprint function and one salt, two inputs that differ
\* in cpu_id, in the normalized MAC address or in os_info have different
\* digests.
C23_FingerprintInjective ==
    \A f, g \in hashes :
        (/\ f.fn = g.fn
         /\ f.salt = g.salt
         /\ <<f.cpu_id, NormalizeMac(f.mac_address), f.os_info>>
                # <<g.cpu_id, NormalizeMac(g.mac_address), g.os_info>>) =>
            f.digest # g.digest

\* C24: two fingerprints, of either function, of inputs that differ in the
\* case and the separator of the MAC address at most, are the same digest.
C24_MacIsNormalized ==
    \A f, g \in hashes :
        (/\ f.salt = g.salt
         /\ f.cpu_id = g.cpu_id
         /\ f.os_info = g.os_info
         /\ NormalizeMac(f.mac_address) = NormalizeMac(g.mac_address)) =>
            f.digest = g.digest

\* what the guard holds for a pair at time t: its failure entry, its
\* lockout entry, and the outcome of a check
PairState(fa, t, q) ==
    LET key == PairKey(q[1], q[2])
        bf == check_brute_force(fa, t, q[1], q[2])
    IN  [attempts |-> IF key \in DOMAIN fa THEN <<fa[key]>> ELSE <<>>,
         lockout |-> IF LockoutKey(key) \in DOMAIN fa
                     THEN <<fa[LockoutKey(key)]>> ELSE <<>>,
         err |-> bf.err,
         blocked |-> bf.blocked]

\* C25: recording a failure, checking or clearing for one pair leaves the
\* failure entry, the lockout entry and the check result of every other pair
\* as they were.
C25_PairsAreSeparate ==
    [][\A p, q \in AnyPairs :
          (/\ p # q
           /\ \/ PairRecord(p[1], p[2])
              \/ PairCheck(p[1], p[2])
              \/ PairClear(p[1], p[2])) =>
              PairState(_failed_attempts', now, q)
                  = PairState(_failed_attempts, now, q)]_vars

\* the end of the running lockout of a pair at time t, in a sequence that is
\* empty when no lockout of the pair is running
RunningLockout(fa, t, client_ip, license_key) ==
    LET lockout_key == LockoutKey(PairKey(client_ip, license_key))
    IN  IF /\ lockout_key \in DOMAIN fa
           /\ fa[lockout_key].kind = "float"
           /\ t < fa[lockout_key].float
        THEN <<fa[lockout_key].float>>
        ELSE <<>>

\* C26: a lockout ends LOCKOUT_DURATION after it started: while it runs,
\* nothing done for the pair moves its end, and the pair is blocked until
\* then and not by it afterwards.
C26_LockoutHasFixedLength ==
    [][\A c \in GuardIps, k \in GuardKeys :
          RunningLockout(_failed_attempts, now, c, k) # <<>> =>
              /\ check_brute_force(_failed_attempts, now, c, k).blocked
              /\ RunningLockout(_failed_attempts', now, c, k)
                     = RunningLockout(_failed_attempts, now, c, k)]_vars

\* the failures of a pair in _failed_attempts not older than the failure
\* window at time t
RecentFailures(fa, t, client_ip, license_key) ==
    LET key == PairKey(client_ip, license_key)
    IN  IF key \in DOMAIN fa
        THEN SelectSeq(fa[key].list, LAMBDA x : x >= t - BRUTE_FORCE_WINDOW)
        ELSE <<>>

\* C27: when a lockout of a pair starts, BRUTE_FORCE_MAX_ATTEMPTS failures
\* of the pair or more lie within the last BRUTE_FORCE_WINDOW seconds.
C27_OnlyRecentFailuresLock ==
    [][\A c \in GuardIps, k \in GuardKeys :
          (/\ RunningLockout(_failed_attempts', now', c, k) # <<>>
           /\ RunningLockout(_failed_attempts', now', c, k)
                  # RunningLockout(_failed_attempts, now, c, k)) =>
              Len(RecentFailures(_failed_attempts', now', c, k))
                  >= BRUTE_FORCE_MAX_ATTEMPTS]_vars

\* C28: the container create_spdf returns for a payload parses, verifies,
\* and decrypts under the same vault to that payload.
C28_RoundTrip ==
    [][\A pdf_bytes \in Payloads, title \in Titles, doc_key \in DocKeys :
          CreateSpdf(pdf_bytes, title, doc_key) =>
              /\ (parse_spdf(data).err = "none")'
              /\ (verify_signature(parse_spdf(data)) = "valid")'
              /\ (decrypt_spdf(data, _master_key, TRUE).res
                     = Outcome("decrypt", "ok", pdf_bytes))']_vars

\* C30: once rotate_master_key has returned, the key manager in use works
\* under the new master key and unwraps every key the rotation returned.
C30_OneActiveMasterKey ==
    rot.pc = "returned" =>
        /\ master_key(_master_key) = rot.new_master_key
        /\ \A i \in 1..Len(rot.new_wrapped) :
               unwrap_key(_master_key, rot.new_wrapped[i]).res.ok

\* C29: the devices table never holds more devices of the user of a license
\* than its max_devices.
C29_CapHoldsUnderConcurrency ==
    \A l \in licenses :
        Cardinality({dv \in devices : dv.user_id = l.user_id})
            <= l.max_devices
====
